---- MODULE Spec2Model ----
(***************************************************************************)
(* A model of Snooper.py: a relay (class Snooper) that forwards every byte *)
(* read on one serial port to the other, two simulated endpoints (class    *)
(* Simulation) that write a timestamped message every delay seconds, and   *)
(* the main thread, which starts the threads and re-raises the first       *)
(* exception one of them put on errQueue.                                  *)
(*                                                                         *)
(* The relay never looks at the value of a byte, so the devices send bytes *)
(* that are all different (Stream): any loss, duplication or reordering,   *)
(* within a direction or across the two, then shows in the histories.      *)
(***************************************************************************)
EXTENDS Integers, Sequences, FiniteSets, TLC

\* ---------------------------------------------------------------- bounds
\* Bytes the device at each port delivers to the relay in one run.
MaxBytes == 3
\* The same in the runs that are checked for what happens in the end.
MaxLiveBytes == 2
\* Bytes the devices deliver in a run of the whole program.
MaxSysBytes == 1
\* The last instant of the clock in a run of the whole program.
MaxSysTime == 1
\* The last instant of the clock in a run of one Simulation.
MaxTime == 4
\* Bytes a Simulation that runs alone is sent.
MaxIncoming == 2
\* The longest delay (--delay0, --delay1) of a Simulation that runs alone.
MaxDelay == 2

\* ------------------------------------------------------------- constants
\* s.read(8192): the most one read call returns.
ChunkSize == 8192

Port == {0, 1}

\* The threads: MyThread.name of line 54.
SimName(k) == IF k = 0 THEN "Sim0" ELSE "Sim1"

VARIABLES
    args,       \* the parsed command line: test, port0, port1, delay
    mainPc,     \* where the main thread stands
    threads,    \* the list "threads" of line 162
    started,    \* how many threads of the list "for thr in threads" has started
    raised,     \* the exception "raise(e)" re-raised with the thread it came from, or NoError
    errQueue,   \* errQueue: the exceptions put and not yet got, oldest first
    posted,     \* every exception ever put on errQueue, in the order of the puts
    relayPc,    \* where the Snooper thread stands
    relayErr,   \* the exception the Snooper thread is unwinding with, or "none"
    ser,        \* ser[p]: whether the Serial object of port p is open
    buffer,     \* buffer[p]: buffer0 / buffer1, the bytes waiting to be written to port p
    rquery,     \* the read-interest list of the select call under way, or {}
    wquery,     \* the write-interest list of the select call under way, or {}
    rlist,      \* the readable ports select returned that are still to be served
    wlist,      \* the writable ports select returned that are still to be served
    clen,       \* len(c) of the last s.read since select returned, -1 before it
    n,          \* n of the last s.write since select returned, -1 before it
    quota,      \* how many bytes the device at each port delivers in this run
    rx,         \* rx[p]: bytes delivered to port p that the relay has not read
    got,        \* got[p]: every byte the relay has read from port p, in order
    tx,         \* tx[p]: every byte the relay has written to port p, in order
    wready,     \* wready[p]: port p's transmit side accepts bytes now
    rspur,      \* the ports reported readable although no byte is waiting
    simPc,      \* simPc[k]: where the thread of Simulation k stands
    simErr,     \* simErr[k]: the exception Simulation k ended with, or "none"
    tNext,      \* tNext[k]: the deadline of the next message of Simulation k
    fds,        \* fds[k]: whether the pty pair (master, slave) of Simulation k is open
    inbox,      \* inbox[k]: bytes readable on the master of Simulation k
    lastSent,   \* lastSent[k]: when Simulation k wrote its last message, -1 before
    horizon,    \* the last instant of the clock in this run
    now         \* time.time()

mainVars == <<args, mainPc, threads, started, raised, horizon>>
errVars == <<errQueue, posted>>
relayVars == <<relayPc, relayErr, ser, buffer, rquery, wquery, rlist, wlist, clen, n>>
portVars == <<quota, rx, got, tx, wready, rspur>>
simVars == <<simPc, simErr, tNext, fds, lastSent>>
vars == <<args, mainPc, threads, started, raised, errQueue, posted,
          relayPc, relayErr, ser, buffer, rquery, wquery, rlist, wlist, clen, n,
          quota, rx, got, tx, wready, rspur,
          simPc, simErr, tNext, fds, inbox, lastSent, horizon, now>>

\* ---------------------------------------------------------------- helpers
Min(a, b) == IF a < b THEN a ELSE b

\* The first k elements of s, and s without them (s[:k] and s[k:]).
Take(s, k) == SubSeq(s, 1, k)
DropAll(s, k) == <<>>
Drop(s, k) == SubSeq(s, k + 1, Len(s))

\* select.select returns its ready objects in the order of the lists it was
\* given: s0 before s1.
PortListFirst(S) ==
    IF 0 \in S THEN <<0>>
    ELSE IF S = {1} THEN <<1>>
    ELSE <<>>
PortList(S) ==
    IF S = {0, 1} THEN <<0, 1>>
    ELSE IF S = {0} THEN <<0>>
    ELSE IF S = {1} THEN <<1>>
    ELSE <<>>

\* The exception an operation on port p raises, by its message.
IOError(op, p) == IF p = 0 THEN op \o "0" ELSE op \o "1"

\* What "raised" holds while main has re-raised nothing.
NoError == <<"nobody", "none">>

\* The i-th byte (from 1) the device at port p delivers.
Stream(p, i) == (2 * i + p) % 256

\* The process lives until main leaves: the threads are daemons.
Alive == mainPc \notin {"usage", "raised"}

\* Port p is reported readable.
Readable(p) == rx[p] # <<>> \/ p \in rspur

\* The write-interest list of lines 89-91: s0 if buffer0 is not empty, s1 if
\* buffer1 is not empty.
WriteInterestSwapped == {p \in Port : Len(buffer[1 - p]) # 0}
WriteInterestNone == {}
WriteInterest == {p \in Port : Len(buffer[p]) # 0}

\* After one read or write of the iteration: back to the top of the loop once
\* both for loops are through.
AfterServe(rl, wl) == IF rl = <<>> /\ wl = <<>> THEN "select" ELSE "serve"

\* Lines 96-101: the buffer the bytes read from s are appended to; bytes of
\* s0 go to buffer1, bytes of s1 to buffer0.
TargetSame(s) == s
Target(s) == IF s = 0 THEN 1 ELSE 0

\* Line 95: where the thread stands after a read that returned c; an empty c
\* only skips the rest of the pass ("continue").
AfterReadEof(c, rl, wl) == IF Len(c) = 0 THEN "close1" ELSE AfterServe(rl, wl)
AfterRead(c, rl, wl) == AfterServe(rl, wl)

\* queue.Queue(): put appends and never blocks (no maxsize), get takes the
\* oldest.
QueueFullSingleSlot(q) == Len(q) >= 1
QueueFull(q) == FALSE
QueuePut(q, e) == Append(q, e)
QueueFront(q) == Head(q)

\* ------------------------------------------------- relay: open, close, post
\* Line 78: with serial.Serial(port=port0, ...) as s0.
RelayOpen0Through ==
    /\ Alive
    /\ relayPc = "open0"
    /\ \/ /\ ser' = [ser EXCEPT ![0] = TRUE]
          /\ relayPc' = "open1"
          /\ UNCHANGED relayErr
       \/ /\ relayErr' = IOError("open", 0)
          /\ relayPc' = "open1"
          /\ UNCHANGED ser
    /\ UNCHANGED <<buffer, rquery, wquery, rlist, wlist, clen, n>>
    /\ UNCHANGED <<mainVars, errVars, portVars, simVars, inbox, now>>
RelayOpen0 ==
    /\ Alive
    /\ relayPc = "open0"
    /\ \/ /\ ser' = [ser EXCEPT ![0] = TRUE]
          /\ relayPc' = "open1"
          /\ UNCHANGED relayErr
       \/ /\ relayErr' = IOError("open", 0)
          /\ relayPc' = "post"
          /\ UNCHANGED ser
    /\ UNCHANGED <<buffer, rquery, wquery, rlist, wlist, clen, n>>
    /\ UNCHANGED <<mainVars, errVars, portVars, simVars, inbox, now>>

\* Line 79: with serial.Serial(port=port1, ...) as s1; lines 84-85 on success.
RelayOpen1 ==
    /\ Alive
    /\ relayPc = "open1"
    /\ \/ /\ ser' = [ser EXCEPT ![1] = TRUE]
          /\ buffer' = [p \in Port |-> <<>>]
          /\ relayPc' = "select"
          /\ UNCHANGED relayErr
       \/ /\ relayErr' = IOError("open", 1)
          /\ relayPc' = "close0"
          /\ UNCHANGED <<ser, buffer>>
    /\ UNCHANGED <<rquery, wquery, rlist, wlist, clen, n>>
    /\ UNCHANGED <<mainVars, errVars, portVars, simVars, inbox, now>>

\* The exception leaves the inner with block of line 79: s1 is closed.
RelayClose1 ==
    /\ Alive
    /\ relayPc = "close1"
    /\ ser' = [ser EXCEPT ![1] = FALSE]
    /\ relayPc' = "close0"
    /\ UNCHANGED <<relayErr, buffer, rquery, wquery, rlist, wlist, clen, n>>
    /\ UNCHANGED <<mainVars, errVars, portVars, simVars, inbox, now>>

\* The exception leaves the outer with block of line 78: s0 is closed.
RelayClose0 ==
    /\ Alive
    /\ relayPc = "close0"
    /\ ser' = [ser EXCEPT ![0] = FALSE]
    /\ relayPc' = "post"
    /\ UNCHANGED <<relayErr, buffer, rquery, wquery, rlist, wlist, clen, n>>
    /\ UNCHANGED <<mainVars, errVars, portVars, simVars, inbox, now>>

\* Lines 61-62 in the Snooper thread: self.err.put(e).
RelayPost ==
    /\ Alive
    /\ relayPc = "post"
    /\ ~QueueFull(errQueue)
    /\ errQueue' = QueuePut(errQueue, <<"Snooper", relayErr>>)
    /\ posted' = Append(posted, <<"Snooper", relayErr>>)
    /\ relayPc' = "log"
    /\ UNCHANGED <<relayErr, ser, buffer, rquery, wquery, rlist, wlist, clen, n>>
    /\ UNCHANGED <<mainVars, portVars, simVars, inbox, now>>

\* Line 63 in the Snooper thread: logger.exception; run returns.
RelayLog ==
    /\ Alive
    /\ relayPc = "log"
    /\ relayPc' = "done"
    /\ UNCHANGED <<relayErr, ser, buffer, rquery, wquery, rlist, wlist, clen, n>>
    /\ UNCHANGED <<mainVars, errVars, portVars, simVars, inbox, now>>

\* ------------------------------------------------------------ relay: loop
\* Lines 88-92: build wlist and call select.select([s0, s1], wlist, []).
RelayQuery ==
    /\ Alive
    /\ relayPc = "select"
    /\ rquery' = Port
    /\ wquery' = WriteInterest
    /\ relayPc' = "wait"
    /\ UNCHANGED <<relayErr, ser, buffer, rlist, wlist, clen, n>>
    /\ UNCHANGED <<mainVars, errVars, portVars, simVars, inbox, now>>

\* Line 92: select returns, with no timeout, once a port of the read-interest
\* list is readable or a port of the write-interest list is writable.
RelayWakeAnytime ==
    /\ Alive
    /\ relayPc = "wait"
    /\ rlist' = PortList({p \in rquery : Readable(p)})
    /\ wlist' = PortList({p \in wquery : wready[p]})
    /\ rquery' = {}
    /\ wquery' = {}
    /\ clen' = -1
    /\ n' = -1
    /\ relayPc' = "serve"
    /\ UNCHANGED <<relayErr, ser, buffer>>
    /\ UNCHANGED <<mainVars, errVars, portVars, simVars, inbox, now>>
RelayWake ==
    /\ Alive
    /\ relayPc = "wait"
    /\ LET rl == {p \in rquery : Readable(p)}
           wl == {p \in wquery : wready[p]}
       IN  /\ rl \cup wl # {}
           /\ rlist' = PortList(rl)
           /\ wlist' = PortList(wl)
    /\ rquery' = {}
    /\ wquery' = {}
    /\ clen' = -1
    /\ n' = -1
    /\ relayPc' = "serve"
    /\ UNCHANGED <<relayErr, ser, buffer>>
    /\ UNCHANGED <<mainVars, errVars, portVars, simVars, inbox, now>>

\* Lines 93-101, one pass of "for s in rlist": c = s.read(8192); an empty c
\* is skipped; bytes of s0 go to buffer1, bytes of s1 to buffer0.
RelayReadOkRecompute(s) ==
    LET c == Take(rx[s], Min(ChunkSize, Len(rx[s])))
    IN  /\ rx' = [rx EXCEPT ![s] = Drop(@, Len(c))]
        /\ got' = [got EXCEPT ![s] = @ \o c]
        /\ rspur' = rspur \ {s}
        /\ clen' = Len(c)
        /\ buffer' = IF Len(c) = 0 THEN buffer
                     ELSE [buffer EXCEPT ![Target(s)] = @ \o c]
        /\ rlist' = Tail(rlist)
        /\ wlist' = PortList({p \in Port : buffer'[p] # <<>> /\ wready[p]})
        /\ relayPc' = AfterRead(c, Tail(rlist), wlist')
        /\ UNCHANGED <<relayErr, ser, rquery, wquery, n>>
        /\ UNCHANGED <<quota, tx, wready>>
RelayReadOkCapped(s) ==
    LET c == Take(rx[s], Min(ChunkSize, Len(rx[s])))
    IN  /\ rx' = [rx EXCEPT ![s] = Drop(@, Len(c))]
        /\ got' = [got EXCEPT ![s] = @ \o c]
        /\ rspur' = rspur \ {s}
        /\ clen' = Len(c)
        /\ buffer' = IF Len(c) = 0 \/ Len(buffer[Target(s)]) >= 2 THEN buffer
                     ELSE [buffer EXCEPT ![Target(s)] = @ \o c]
        /\ rlist' = Tail(rlist)
        /\ relayPc' = AfterRead(c, Tail(rlist), wlist)
        /\ UNCHANGED <<relayErr, ser, rquery, wquery, wlist, n>>
        /\ UNCHANGED <<quota, tx, wready>>
RelayReadOk(s) ==
    LET c == Take(rx[s], Min(ChunkSize, Len(rx[s])))
    IN  /\ rx' = [rx EXCEPT ![s] = Drop(@, Len(c))]
        /\ got' = [got EXCEPT ![s] = @ \o c]
        /\ rspur' = rspur \ {s}
        /\ clen' = Len(c)
        /\ buffer' = IF Len(c) = 0 THEN buffer
                     ELSE [buffer EXCEPT ![Target(s)] = @ \o c]
        /\ rlist' = Tail(rlist)
        /\ relayPc' = AfterRead(c, Tail(rlist), wlist)
        /\ UNCHANGED <<relayErr, ser, rquery, wquery, wlist, n>>
        /\ UNCHANGED <<quota, tx, wready>>

\* An exception leaves __doit: its locals are gone.
UnwindRetry ==
    /\ buffer' = [p \in Port |-> <<>>]
    /\ rlist' = <<>>
    /\ wlist' = <<>>
    /\ clen' = -1
    /\ n' = -1
    /\ relayPc' = "select"
Unwind ==
    /\ buffer' = [p \in Port |-> <<>>]
    /\ rlist' = <<>>
    /\ wlist' = <<>>
    /\ clen' = -1
    /\ n' = -1
    /\ relayPc' = "close1"

\* s.read raises.
RelayReadFail(s) ==
    /\ relayErr' = IOError("read", s)
    /\ Unwind
    /\ UNCHANGED <<ser, rquery, wquery>>
    /\ UNCHANGED portVars

RelayRead ==
    /\ Alive
    /\ relayPc = "serve"
    /\ rlist # <<>>
    /\ \/ RelayReadOk(Head(rlist))
       \/ RelayReadFail(Head(rlist))
    /\ UNCHANGED <<mainVars, errVars, simVars, inbox, now>>

\* Lines 102-109, one pass of "for s in wlist": n = s.write(buffer);
\* buffer = buffer[n:]. The write accepts any number of the bytes, and may
\* leave the transmit side of the port full. With --test the bytes written to the slave of the
\* pty of Simulation s become readable on its master.
RelayWriteOk(s, k) ==
    /\ n' = k
    /\ \E full \in BOOLEAN : wready' = [wready EXCEPT ![s] = ~full]
    /\ tx' = [tx EXCEPT ![s] = @ \o Take(buffer[s], k)]
    /\ inbox' = IF args.test THEN [inbox EXCEPT ![s] = @ \o Take(buffer[s], k)]
                ELSE inbox
    /\ buffer' = [buffer EXCEPT ![s] = Drop(@, k)]
    /\ wlist' = Tail(wlist)
    /\ relayPc' = AfterServe(rlist, Tail(wlist))
    /\ UNCHANGED <<relayErr, ser, rquery, wquery, rlist, clen>>
    /\ UNCHANGED <<quota, rx, got, rspur>>

\* s.write raises.
RelayWriteFail(s) ==
    /\ relayErr' = IOError("write", s)
    /\ Unwind
    /\ UNCHANGED <<ser, rquery, wquery>>
    /\ UNCHANGED <<portVars, inbox>>

RelayWrite ==
    /\ Alive
    /\ relayPc = "serve"
    /\ rlist = <<>>
    /\ wlist # <<>>
    /\ \/ \E k \in 0..Len(buffer[Head(wlist)]) : RelayWriteOk(Head(wlist), k)
       \/ RelayWriteFail(Head(wlist))
    /\ UNCHANGED <<mainVars, errVars, simVars, now>>

\* ------------------------------------------------------------ environment
\* What happens at a port happens while the relay holds it open.
\* The device at port p delivers one more byte.
Arrive(p) ==
    /\ Alive
    /\ ser[p]
    /\ ~args.test
    /\ Len(got[p]) + Len(rx[p]) < quota
    /\ rx' = [rx EXCEPT ![p] = Append(@, Stream(p, Len(got[p]) + Len(rx[p]) + 1))]
    /\ UNCHANGED <<quota, got, tx, wready, rspur>>
    /\ UNCHANGED <<mainVars, errVars, relayVars, simVars, inbox, now>>

\* The transmit side of port p, which was full, drains: p is writable until
\* a write fills it again.
Drain(p) ==
    /\ Alive
    /\ ser[p]
    /\ ~wready[p]
    /\ wready' = [wready EXCEPT ![p] = TRUE]
    /\ UNCHANGED <<quota, rx, got, tx, rspur>>
    /\ UNCHANGED <<mainVars, errVars, relayVars, simVars, inbox, now>>

\* Port p reports readable with nothing to read.
Spurious(p) ==
    /\ Alive
    /\ ser[p]
    /\ rx[p] = <<>>
    /\ p \notin rspur
    /\ rspur' = rspur \cup {p}
    /\ UNCHANGED <<quota, rx, got, tx, wready>>
    /\ UNCHANGED <<mainVars, errVars, relayVars, simVars, inbox, now>>

\* ------------------------------------------------------------ Simulation
\* The message of line 129, "Message from <key> at <time>\r": one byte
\* stands for it, which tells the key and the time.
Msg(k, t) == <<(2 * t + k) % 256>>

\* Lines 120-125: tNext = time.time() + dt.
SimInit(k) ==
    /\ Alive
    /\ simPc[k] = "init"
    /\ tNext' = [tNext EXCEPT ![k] = now + args.delay[k + 1]]
    /\ simPc' = [simPc EXCEPT ![k] = "select"]
    /\ UNCHANGED <<simErr, fds, lastSent, inbox, now>>
    /\ UNCHANGED <<mainVars, errVars, relayVars, portVars>>

\* Line 127, the call: select.select([s], [], [], tNext - time.time()), which
\* raises ValueError when the timeout is negative.
SimSelect(k) ==
    /\ Alive
    /\ simPc[k] = "select"
    /\ IF tNext[k] - now < 0
       THEN /\ simErr' = [simErr EXCEPT ![k] = "ValueError"]
            /\ simPc' = [simPc EXCEPT ![k] = "post"]
       ELSE /\ simPc' = [simPc EXCEPT ![k] = "wait"]
            /\ UNCHANGED simErr
    /\ UNCHANGED <<tNext, fds, lastSent, inbox, now>>
    /\ UNCHANGED <<mainVars, errVars, relayVars, portVars>>

\* The select call of Simulation k has run out of time with nothing to read.
TimedOutEarly(k) == simPc[k] = "wait" /\ inbox[k] = <<>>
TimedOut(k) == simPc[k] = "wait" /\ inbox[k] = <<>> /\ now >= tNext[k]

\* Lines 127-128, the return: with the master readable rlist is [s], and
\* after the timeout with nothing readable it is [].
SimWake(k) ==
    /\ Alive
    /\ simPc[k] = "wait"
    /\ \/ /\ inbox[k] # <<>>
          /\ simPc' = [simPc EXCEPT ![k] = "read"]
       \/ /\ TimedOut(k)
          /\ simPc' = [simPc EXCEPT ![k] = "send"]
    /\ UNCHANGED <<simErr, tNext, fds, lastSent, inbox, now>>
    /\ UNCHANGED <<mainVars, errVars, relayVars, portVars>>

\* Lines 129-132: os.write(s, a); tNext = time.time() + dt. What is written
\* to the master becomes readable on the slave, the port the relay was given.
SimSend(k) ==
    /\ Alive
    /\ simPc[k] = "send"
    /\ \/ /\ rx' = [rx EXCEPT ![k] = @ \o Msg(k, now)]
          /\ tNext' = [tNext EXCEPT ![k] = now + args.delay[k + 1]]
          /\ lastSent' = [lastSent EXCEPT ![k] = now]
          /\ simPc' = [simPc EXCEPT ![k] = "select"]
          /\ UNCHANGED simErr
       \/ /\ simErr' = [simErr EXCEPT ![k] = "write"]
          /\ simPc' = [simPc EXCEPT ![k] = "post"]
          /\ UNCHANGED <<rx, tNext, lastSent>>
    /\ UNCHANGED <<fds, inbox, now>>
    /\ UNCHANGED <<quota, got, tx, wready, rspur>>
    /\ UNCHANGED <<mainVars, errVars, relayVars>>

\* Lines 134-135: c = os.read(s, 1).
SimReadAll(k) ==
    /\ Alive
    /\ simPc[k] = "read"
    /\ \/ /\ inbox' = [inbox EXCEPT ![k] = <<>>]
          /\ simPc' = [simPc EXCEPT ![k] = "select"]
          /\ UNCHANGED simErr
       \/ /\ simErr' = [simErr EXCEPT ![k] = "read"]
          /\ simPc' = [simPc EXCEPT ![k] = "post"]
          /\ UNCHANGED inbox
    /\ UNCHANGED <<tNext, fds, lastSent, now>>
    /\ UNCHANGED <<mainVars, errVars, relayVars, portVars>>
SimRead(k) ==
    /\ Alive
    /\ simPc[k] = "read"
    /\ \/ /\ inbox' = [inbox EXCEPT ![k] = Tail(@)]
          /\ simPc' = [simPc EXCEPT ![k] = "select"]
          /\ UNCHANGED simErr
       \/ /\ simErr' = [simErr EXCEPT ![k] = "read"]
          /\ simPc' = [simPc EXCEPT ![k] = "post"]
          /\ UNCHANGED inbox
    /\ UNCHANGED <<tNext, fds, lastSent, now>>
    /\ UNCHANGED <<mainVars, errVars, relayVars, portVars>>

\* Lines 61-62 in the thread of Simulation k: self.err.put(e). Nothing closes
\* master or slave.
SimPost(k) ==
    /\ Alive
    /\ simPc[k] = "post"
    /\ ~QueueFull(errQueue)
    /\ errQueue' = QueuePut(errQueue, <<SimName(k), simErr[k]>>)
    /\ posted' = Append(posted, <<SimName(k), simErr[k]>>)
    /\ simPc' = [simPc EXCEPT ![k] = "log"]
    /\ UNCHANGED <<simErr, tNext, fds, lastSent, inbox, now>>
    /\ UNCHANGED <<mainVars, relayVars, portVars>>

\* Line 63 in the thread of Simulation k: logger.exception; run returns.
SimLog(k) ==
    /\ Alive
    /\ simPc[k] = "log"
    /\ simPc' = [simPc EXCEPT ![k] = "done"]
    /\ UNCHANGED <<simErr, tNext, fds, lastSent, inbox, now>>
    /\ UNCHANGED <<mainVars, errVars, relayVars, portVars>>

\* The select call of Simulation k has nothing to return with yet.
Blocked(k) == simPc[k] = "wait" /\ inbox[k] = <<>> /\ now < tNext[k]

\* time.time() moves on, while a Simulation waits in select for its deadline
\* or handles a byte it was sent (lines 134-135): the statements of a
\* Simulation take no time otherwise, and a select call that has something
\* to read or has run out of time returns before the clock shows the next
\* instant. Only a Simulation reads the clock.
Tick ==
    /\ Alive
    /\ now < horizon
    /\ \E k \in Port : simPc[k] \in {"wait", "read"}
    /\ \A k \in Port : simPc[k] \in {"init", "select", "wait", "send"} => Blocked(k)
    /\ now' = now + 1
    /\ UNCHANGED <<simVars, inbox>>
    /\ UNCHANGED <<mainVars, errVars, relayVars, portVars>>

\* The other end of the pty of Simulation k is written to: one more byte is
\* readable on the master.
Incoming(k) ==
    /\ Alive
    /\ simPc[k] \notin {"none", "new"}
    /\ Len(tx[k]) < MaxIncoming
    /\ tx' = [tx EXCEPT ![k] = Append(@, Stream(1 - k, Len(@) + 1))]
    /\ inbox' = [inbox EXCEPT ![k] = Append(@, Stream(1 - k, Len(tx[k]) + 1))]
    /\ UNCHANGED <<quota, rx, got, wready, rspur>>
    /\ UNCHANGED <<mainVars, errVars, relayVars, simVars, now>>

\* --------------------------------------------------------------------- main
\* Lines 164-174: parser.error unless the command line names two existing
\* ports and no --test, or --test and no port.
ArgsValidLax ==
    IF ~args.test
    THEN args.port0 = "exists" /\ args.port1 = "exists"
    ELSE TRUE
ArgsValid ==
    IF ~args.test
    THEN args.port0 = "exists" /\ args.port1 = "exists"
    ELSE args.port0 = "none" /\ args.port1 = "none"

MainValidate ==
    /\ mainPc = "validate"
    /\ mainPc' = IF ArgsValid THEN "create" ELSE "usage"
    /\ UNCHANGED <<args, threads, started, raised, horizon>>
    /\ UNCHANGED <<errVars, relayVars, portVars, simVars, inbox, now>>

\* Lines 176-181: with --test the two Simulation objects, each opening its pty
\* pair, then the Snooper.
MainCreate ==
    /\ mainPc = "create"
    /\ IF args.test
       THEN /\ threads' = <<"Sim0", "Sim1", "Snooper">>
            /\ simPc' = [k \in Port |-> "new"]
            /\ fds' = [k \in Port |-> TRUE]
       ELSE /\ threads' = <<"Snooper">>
            /\ UNCHANGED <<simPc, fds>>
    /\ relayPc' = "new"
    /\ mainPc' = "start"
    /\ UNCHANGED <<args, started, raised, horizon>>
    /\ UNCHANGED <<simErr, tNext, lastSent, inbox, now>>
    /\ UNCHANGED <<relayErr, ser, buffer, rquery, wquery, rlist, wlist, clen, n>>
    /\ UNCHANGED <<errVars, portVars>>

\* Lines 183-184, one pass of "for thr in threads": thr.start().
MainStart ==
    /\ mainPc = "start"
    /\ LET thr == threads[started + 1]
       IN  /\ relayPc' = IF thr = "Snooper" THEN "open0" ELSE relayPc
           /\ simPc' = [k \in Port |-> IF thr = SimName(k) THEN "init" ELSE simPc[k]]
    /\ started' = started + 1
    /\ mainPc' = IF started + 1 = Len(threads) THEN "get" ELSE "start"
    /\ UNCHANGED <<args, threads, raised, horizon>>
    /\ UNCHANGED <<simErr, tNext, fds, lastSent, inbox, now>>
    /\ UNCHANGED <<relayErr, ser, buffer, rquery, wquery, rlist, wlist, clen, n>>
    /\ UNCHANGED <<errVars, portVars>>

\* Lines 186-187: e = errQueue.get(), which blocks while the queue is empty;
\* raise(e).
MainGetNoWait ==
    /\ mainPc = "get"
    /\ raised' = IF errQueue # <<>> THEN QueueFront(errQueue) ELSE <<"main", "Empty">>
    /\ errQueue' = IF errQueue # <<>> THEN Tail(errQueue) ELSE errQueue
    /\ mainPc' = "raised"
    /\ UNCHANGED <<args, threads, started, posted, horizon>>
    /\ UNCHANGED <<relayVars, portVars, simVars, inbox, now>>
MainGet ==
    /\ mainPc = "get"
    /\ errQueue # <<>>
    /\ raised' = QueueFront(errQueue)
    /\ errQueue' = Tail(errQueue)
    /\ mainPc' = "raised"
    /\ UNCHANGED <<args, threads, started, posted, horizon>>
    /\ UNCHANGED <<relayVars, portVars, simVars, inbox, now>>

\* -------------------------------------------------------- the whole program
CommandLines ==
    [test : BOOLEAN, port0 : {"none", "missing", "exists"},
     port1 : {"none", "missing", "exists"}, delay : {<<1, 2>>}]

Init ==
    /\ args \in CommandLines
    /\ mainPc = "validate"
    /\ threads = <<>>
    /\ started = 0
    /\ raised = NoError
    /\ errQueue = <<>>
    /\ posted = <<>>
    /\ relayPc = "none"
    /\ relayErr = "none"
    /\ ser = [p \in Port |-> FALSE]
    /\ buffer = [p \in Port |-> <<>>]
    /\ rquery = {}
    /\ wquery = {}
    /\ rlist = <<>>
    /\ wlist = <<>>
    /\ clen = -1
    /\ n = -1
    /\ quota = MaxSysBytes
    /\ horizon = MaxSysTime
    /\ rx = [p \in Port |-> <<>>]
    /\ got = [p \in Port |-> <<>>]
    /\ tx = [p \in Port |-> <<>>]
    /\ wready = [p \in Port |-> TRUE]
    /\ rspur = {}
    /\ simPc = [k \in Port |-> "none"]
    /\ simErr = [k \in Port |-> "none"]
    /\ tNext = [k \in Port |-> 0]
    /\ fds = [k \in Port |-> FALSE]
    /\ inbox = [k \in Port |-> <<>>]
    /\ lastSent = [k \in Port |-> -1]
    /\ now = 0

Next ==
    \/ MainValidate
    \/ MainCreate
    \/ MainStart
    \/ MainGet
    \/ RelayOpen0
    \/ RelayOpen1
    \/ RelayQuery
    \/ RelayWake
    \/ RelayRead
    \/ RelayWrite
    \/ RelayClose1
    \/ RelayClose0
    \/ RelayPost
    \/ RelayLog
    \/ \E k \in Port : SimInit(k)
    \/ \E k \in Port : SimSelect(k)
    \/ \E k \in Port : SimWake(k)
    \/ \E k \in Port : SimSend(k)
    \/ \E k \in Port : SimRead(k)
    \/ \E k \in Port : SimPost(k)
    \/ \E k \in Port : SimLog(k)
    \/ \E p \in Port : Arrive(p)
    \/ \E p \in Port : Drain(p)
    \/ \E p \in Port : Spurious(p)
    \/ Tick

Spec == Init /\ [][Next]_vars

\* The whole program with the scheduling Python gives its threads: the main
\* thread and a thread that is handling its exception keep running.
SpecFair ==
    /\ Init
    /\ [][Next]_vars
    /\ WF_vars(MainValidate)
    /\ WF_vars(MainCreate)
    /\ WF_vars(MainStart)
    /\ WF_vars(MainGet)
    /\ WF_vars(RelayClose1)
    /\ WF_vars(RelayClose0)
    /\ WF_vars(RelayPost)
    /\ WF_vars(RelayLog)

\* ------------------------------------------------- the relay loop by itself
\* The state in which __doit starts (line 88) when the program was given two
\* ports: both are open, the buffers are empty, main waits in errQueue.get().
InitRelayWith(q) ==
    /\ args = [test |-> FALSE, port0 |-> "exists", port1 |-> "exists",
               delay |-> <<1, 2>>]
    /\ mainPc = "get"
    /\ threads = <<"Snooper">>
    /\ started = 1
    /\ raised = NoError
    /\ errQueue = <<>>
    /\ posted = <<>>
    /\ relayPc = "select"
    /\ relayErr = "none"
    /\ ser = [p \in Port |-> TRUE]
    /\ buffer = [p \in Port |-> <<>>]
    /\ rquery = {}
    /\ wquery = {}
    /\ rlist = <<>>
    /\ wlist = <<>>
    /\ clen = -1
    /\ n = -1
    /\ quota = q
    /\ horizon = 0
    /\ rx = [p \in Port |-> <<>>]
    /\ got = [p \in Port |-> <<>>]
    /\ tx = [p \in Port |-> <<>>]
    /\ wready \in [Port -> BOOLEAN]
    /\ rspur = {}
    /\ simPc = [k \in Port |-> "none"]
    /\ simErr = [k \in Port |-> "none"]
    /\ tNext = [k \in Port |-> 0]
    /\ fds = [k \in Port |-> FALSE]
    /\ inbox = [k \in Port |-> <<>>]
    /\ lastSent = [k \in Port |-> -1]
    /\ now = 0

InitRelay == InitRelayWith(MaxBytes)

NextRelay ==
    \/ RelayQuery
    \/ RelayWake
    \/ RelayRead
    \/ RelayWrite
    \/ RelayClose1
    \/ RelayClose0
    \/ RelayPost
    \/ RelayLog
    \/ \E p \in Port : Arrive(p)
    \/ \E p \in Port : Drain(p)
    \/ \E p \in Port : Spurious(p)

SpecRelay == InitRelay /\ [][NextRelay]_vars

\* The relay loop with what the threads' scheduling and the devices grant:
\* the Snooper thread keeps running, a port whose transmit side is full
\* drains, and a write to a port select reported writable accepts at least
\* one byte again and again.
WriteAccept(p) == RelayWrite /\ Head(wlist) = p /\ n' >= 1

SpecRelayFair ==
    /\ InitRelayWith(MaxLiveBytes)
    /\ [][NextRelay]_vars
    /\ WF_vars(RelayQuery)
    /\ WF_vars(RelayWake)
    /\ WF_vars(RelayRead)
    /\ WF_vars(RelayWrite)
    /\ \A p \in Port : WF_vars(Drain(p))
    /\ \A p \in Port : SF_vars(WriteAccept(p))

\* ------------------------------------------------- one Simulation by itself
\* The state in which the thread of Simulation 0 starts (line 119), with a
\* delay of 1..MaxDelay seconds; what the relay writes to its pty is left to
\* Incoming.
InitSim ==
    /\ args \in [test : {TRUE}, port0 : {"none"}, port1 : {"none"},
                 delay : {<<d, d>> : d \in 1..MaxDelay}]
    /\ mainPc = "get"
    /\ threads = <<"Sim0", "Sim1", "Snooper">>
    /\ started = 3
    /\ raised = NoError
    /\ errQueue = <<>>
    /\ posted = <<>>
    /\ relayPc = "none"
    /\ relayErr = "none"
    /\ ser = [p \in Port |-> FALSE]
    /\ buffer = [p \in Port |-> <<>>]
    /\ rquery = {}
    /\ wquery = {}
    /\ rlist = <<>>
    /\ wlist = <<>>
    /\ clen = -1
    /\ n = -1
    /\ quota = 0
    /\ horizon = MaxTime
    /\ rx = [p \in Port |-> <<>>]
    /\ got = [p \in Port |-> <<>>]
    /\ tx = [p \in Port |-> <<>>]
    /\ wready = [p \in Port |-> TRUE]
    /\ rspur = {}
    /\ simPc = [k \in Port |-> IF k = 0 THEN "init" ELSE "none"]
    /\ simErr = [k \in Port |-> "none"]
    /\ tNext = [k \in Port |-> 0]
    /\ fds = [k \in Port |-> k = 0]
    /\ inbox = [k \in Port |-> <<>>]
    /\ lastSent = [k \in Port |-> -1]
    /\ now = 0

NextSim ==
    \/ \E k \in Port : SimInit(k)
    \/ \E k \in Port : SimSelect(k)
    \/ \E k \in Port : SimWake(k)
    \/ \E k \in Port : SimSend(k)
    \/ \E k \in Port : SimRead(k)
    \/ \E k \in Port : SimPost(k)
    \/ \E k \in Port : SimLog(k)
    \/ \E k \in Port : Incoming(k)
    \/ Tick

SpecSim == InitSim /\ [][NextSim]_vars

\* ------------------------------------------------------------------ claims
InLoop == relayPc \in {"select", "wait", "serve"}

IsPrefix(s, t) == Len(s) <= Len(t) /\ s = SubSeq(t, 1, Len(s))

\* One pass of "for s in rlist" that read from s without an exception, and one
\* pass of "for s in wlist" that wrote to s without an exception.
ReadStep(s) ==
    /\ relayPc = "serve"
    /\ rlist # <<>>
    /\ Head(rlist) = s
    /\ rlist' = Tail(rlist)
    /\ relayErr' = "none"
WriteStep(s) ==
    /\ relayPc = "serve"
    /\ rlist = <<>>
    /\ wlist # <<>>
    /\ Head(wlist) = s
    /\ wlist' = Tail(wlist)
    /\ relayErr' = "none"

\* C1: unless a read or a write raises, everything the device at a port has
\* delivered is in the end written to the other port, in order, nothing lost
\* and nothing twice: from some point on the bytes written to port 1 - p are
\* the bytes read from port p followed by nothing left to read or to write.
C1_AllForwarded ==
    <>[](relayErr # "none" \/ \A p \in Port : tx[1 - p] = got[p] \o rx[p])
C1_Witness ==
    /\ relayErr = "none"
    /\ \A p \in Port : Len(tx[1 - p]) = quota /\ tx[1 - p] = got[p]

\* C2: while the relay is in its loop, what it has written to a port followed
\* by the buffer of that port is what it has read from the other port.
C2_BufferIsUnwrittenSuffix ==
    InLoop => \A p \in Port : tx[1 - p] \o buffer[1 - p] = got[p]
C2_Witness ==
    /\ InLoop
    /\ \A p \in Port : tx[p] # <<>> /\ buffer[p] # <<>>

\* C3: a write that accepts n bytes removes the first n bytes of the buffer
\* and nothing else, and these are the bytes the port got; every other step
\* of the loop leaves the buffer as it is or appends to it, so the remainder
\* stays at the head; and the next select that finds the port writable while
\* its buffer is not empty returns it for another write.
C3_PartialWrite ==
    /\ [][\A s \in Port : WriteStep(s) =>
            /\ n' <= Len(buffer[s])
            /\ buffer'[s] = SubSeq(buffer[s], n' + 1, Len(buffer[s]))
            /\ tx'[s] = tx[s] \o SubSeq(buffer[s], 1, n')]_vars
    /\ [][\A s \in Port : (InLoop /\ relayErr' = "none" /\ ~WriteStep(s)) =>
            IsPrefix(buffer[s], buffer'[s])]_vars
    /\ [][\A s \in Port :
            (relayPc = "wait" /\ relayPc' = "serve" /\ buffer[s] # <<>> /\ wready[s]) =>
                \E i \in 1..Len(wlist') : wlist'[i] = s]_vars
C3_Witness ==
    /\ relayPc = "select"
    /\ n = 1
    /\ tx[0] = <<>>
    /\ tx[1] = <<Stream(0, 1)>>
    /\ buffer[1] = <<Stream(0, 2), Stream(0, 3)>>

\* C4: while select is under way, a port is in the write-interest list if and
\* only if its buffer is not empty, and both ports are in the read-interest
\* list.
C4_InterestIffPending ==
    relayPc = "wait" =>
        /\ \A p \in Port : p \in wquery <=> buffer[p] # <<>>
        /\ rquery = Port
C4_Witness ==
    /\ relayPc = "wait"
    /\ wquery = {1}
    /\ buffer[0] = <<>>

\* C5: a read that returns no byte changes no buffer, raises nothing and
\* closes nothing, the thread stays in its loop, and every select call of the
\* loop has both ports in its read-interest list.
C5_EmptyReadIgnored ==
    /\ [][\A s \in Port : (ReadStep(s) /\ clen' = 0) =>
            /\ buffer' = buffer
            /\ ser' = ser
            /\ relayPc' \in {"serve", "select"}]_vars
    /\ [][(relayPc = "select" /\ relayPc' = "wait") => rquery' = Port]_vars
C5_Witness ==
    /\ relayPc = "wait"
    /\ clen = 0
    /\ relayErr = "none"

\* C6: once an open, a read or a write of the relay has raised, the relay
\* reads nothing more, writes nothing more, opens nothing and keeps the
\* exception it has; when its thread is past the put, that exception is on
\* the list of the posted ones; and unless the process ends first, the thread
\* ends.
C6_RelayErrorIsFatal ==
    /\ [][relayErr # "none" =>
            /\ got' = got
            /\ tx' = tx
            /\ relayErr' = relayErr
            /\ \A p \in Port : ser'[p] => ser[p]
            /\ relayPc' \in {"close1", "close0", "post", "log", "done"}]_vars
    /\ [](relayPc \in {"log", "done"} =>
            /\ relayErr # "none"
            /\ \E i \in 1..Len(posted) : posted[i] = <<"Snooper", relayErr>>)
    /\ (relayErr # "none" ~> (relayPc = "done" \/ ~Alive))
C6_Witness ==
    /\ relayPc = "done"
    /\ relayErr = "write1"
    /\ got[0] # <<>>
    /\ posted = <<(<<"Snooper", "write1">>)>>

\* C7: a thread that is past the put of its exception holds no handle open:
\* the relay neither port, a Simulation neither end of its pty.
C7_ReleasedBeforePost ==
    /\ relayPc \in {"log", "done"} => \A p \in Port : ~ser[p]
    /\ \A k \in Port : simPc[k] \in {"log", "done"} => ~fds[k]

\* C8: the exception main re-raises is the first that was put; a put appends
\* to what was put before it; and a thread that has an exception to put can
\* put it at once.
C8_FirstErrorWins ==
    /\ [](mainPc = "raised" => Len(posted) >= 1 /\ raised = posted[1])
    /\ [][IsPrefix(posted, posted')]_vars
    /\ []((Alive /\ relayPc = "post") => ENABLED RelayPost)
    /\ [](\A k \in Port : (Alive /\ simPc[k] = "post") => ENABLED SimPost(k))
C8_Witness ==
    /\ mainPc = "raised"
    /\ Len(posted) >= 2
    /\ raised = posted[1]
    /\ posted[2] # posted[1]

\* C9: main leaves errQueue.get() only with an exception a thread has put, and
\* once a thread has put one, main re-raises the first that was put.
C9_BlocksUntilFirstError ==
    /\ [][(mainPc = "get" /\ posted = <<>>) => mainPc' = "get"]_vars
    /\ [](mainPc = "raised" => posted # <<>>)
    /\ (posted # <<>> ~> (mainPc = "raised" /\ raised = posted[1]))
C9_Witness ==
    /\ mainPc = "raised"
    /\ started = Len(threads)
    /\ raised = posted[1]

\* A pass of the loop of Simulation k that wrote a message.
SendStep(k) == simPc[k] = "send" /\ lastSent'[k] # lastSent[k]

\* C10: each message of a Simulation is written at the deadline the message
\* before it set (the start of the loop, for the first), whatever bytes the
\* Simulation is sent: a message is written at the deadline, and no deadline
\* passes without its message.
C10_CadenceWhateverArrives ==
    /\ [][\A k \in Port : SendStep(k) => now = tNext[k]]_vars
    /\ [](\A k \in Port : simPc[k] \in {"select", "wait", "read", "send"} => now <= tNext[k])

\* C11: a message that is due is not put off by bytes the Simulation is
\* sent: a select call that returns when the deadline has passed is followed
\* by the write of the message, whatever is readable on the master.
C11_DueMessageFirst ==
    [][\A k \in Port : (simPc[k] = "wait" /\ now >= tNext[k] /\ simPc'[k] # "wait") =>
            simPc'[k] = "send"]_vars

\* The command lines lines 164-174 reject: --test with a port, or no --test
\* with a port that was not given or does not exist.
Invalid ==
    \/ args.test /\ (args.port0 # "none" \/ args.port1 # "none")
    \/ ~args.test /\ (args.port0 # "exists" \/ args.port1 # "exists")

\* C12: with a command line that is rejected no Simulation and no Snooper is
\* ever created or started, no pty is opened, nothing is put on errQueue, and
\* main ends in parser.error itself, with nothing re-raised from the queue.
C12_ValidationFirst ==
    /\ [](Invalid =>
            /\ threads = <<>>
            /\ started = 0
            /\ relayPc = "none"
            /\ \A k \in Port : simPc[k] = "none" /\ ~fds[k]
            /\ \A p \in Port : ~ser[p]
            /\ posted = <<>>
            /\ raised = NoError)
    /\ []((Invalid /\ mainPc # "validate") => mainPc = "usage")
C12_Witness ==
    /\ mainPc = "usage"
    /\ args.test
    /\ args.port0 = "exists"

\* C13: port 0 is opened before port 1. When the open of port 0 raises, the
\* relay goes straight to the put of that exception: it never comes to the open
\* of port 1 nor to its loop and holds no port. When the open of port 1
\* raises, the relay never comes to its loop, and port 0 is closed when the
\* exception is put. Port 1 is never open while port 0 is not.
C13_OpenOrder ==
    /\ [](\A p \in Port : relayPc = "open0" => ~ser[p])
    /\ [](relayPc = "open1" => ser[0] /\ ~ser[1] /\ relayErr = "none")
    /\ [](ser[1] => ser[0])
    /\ [](relayErr = "open0" =>
            /\ relayPc \in {"post", "log", "done"}
            /\ \A p \in Port : ~ser[p]
            /\ got = [p \in Port |-> <<>>] /\ tx = [p \in Port |-> <<>>])
    /\ [](relayErr = "open1" =>
            /\ relayPc \in {"close0", "post", "log", "done"}
            /\ ~ser[1]
            /\ relayPc # "close0" => ~ser[0]
            /\ got = [p \in Port |-> <<>>] /\ tx = [p \in Port |-> <<>>])
    /\ [](\A i \in 1..Len(posted) :
            posted[i][2] \in {"open0", "open1"} => \A p \in Port : ~ser[p])
C13_Witness ==
    /\ relayErr = "open1"
    /\ posted = <<(<<"Snooper", "open1">>)>>
    /\ \A p \in Port : ~ser[p]

\* The ports of a list select returned, and a list that names no port twice.
Elems(l) == {l[i] : i \in 1..Len(l)}
NoDup(l) == \A i, j \in 1..Len(l) : l[i] = l[j] => i = j

\* select returns to the loop, and the thread does a step of the two for loops
\* that raises nothing.
WakeStep == relayPc = "wait" /\ relayPc' = "serve"
ServeStep == relayPc = "serve" /\ relayVars' # relayVars /\ relayErr' = "none"

\* C14: between two select calls every read comes before every write; the
\* ports written are ports select returned as writable, and nothing is added
\* to them after the reads: a port whose buffer was empty when select was
\* called is not returned, so what a read of this pass appends to that buffer
\* is not written in this pass; and a write is offered the whole buffer of its
\* port, with what the reads of this pass appended.
C14_ReadsThenReportedWrites ==
    /\ [][(relayPc = "serve" /\ rlist' # rlist) => n = -1 /\ n' = -1]_vars
    /\ [][(ServeStep /\ wlist' # wlist) => rlist = <<>>]_vars
    /\ [][WakeStep => \A p \in Port : buffer[p] = <<>> => p \notin Elems(wlist')]_vars
    /\ [][relayPc = "serve" => Elems(wlist') \subseteq Elems(wlist)]_vars
    /\ [][\A p \in Port : (tx'[p] # tx[p] \/ (ServeStep /\ Len(buffer'[p]) < Len(buffer[p]))) =>
            relayPc = "serve" /\ wlist # <<>> /\ Head(wlist) = p]_vars
    /\ []((Alive /\ relayPc = "serve" /\ rlist = <<>> /\ wlist # <<>>) =>
            ENABLED (RelayWrite /\ relayErr' = "none" /\ n' = Len(buffer[Head(wlist)])))
C14_Witness ==
    /\ relayPc = "select"
    /\ clen >= 1
    /\ n = -1
    /\ got[1] = <<>>
    /\ buffer[1] # <<>>
    /\ tx[1] = <<>>
    /\ wready[1]

\* C15: select returns every port that is readable and every port of its
\* write-interest list that is writable, each once; the passes that follow
\* do one read on each port returned readable, in order, then one write on
\* each port returned writable, in order; and the thread is back at the top of
\* the loop only when both lists are through.
C15_BothServed ==
    /\ [](NoDup(rlist) /\ NoDup(wlist))
    /\ [][WakeStep =>
            /\ Elems(rlist') = {p \in Port : Readable(p)}
            /\ Elems(wlist') = {p \in Port : buffer[p] # <<>> /\ wready[p]}]_vars
    /\ [][ServeStep =>
            \/ /\ rlist # <<>>
               /\ rlist' = Tail(rlist)
               /\ wlist' = wlist
               /\ clen' >= 0
               /\ got'[Head(rlist)] = got[Head(rlist)] \o SubSeq(rx[Head(rlist)], 1, clen')
            \/ /\ rlist = <<>> /\ rlist' = <<>>
               /\ wlist # <<>>
               /\ wlist' = Tail(wlist)
               /\ n' >= 0
               /\ tx'[Head(wlist)] = tx[Head(wlist)] \o SubSeq(buffer[Head(wlist)], 1, n')]_vars
    /\ [][(relayPc = "serve" /\ relayPc' = "select") => rlist' = <<>> /\ wlist' = <<>>]_vars
C15_Witness ==
    /\ relayPc = "serve"
    /\ rlist = <<0, 1>>
    /\ wlist = <<0, 1>>

\* The select call of the relay has nothing to return with: no port is
\* readable, and no port with bytes in its buffer is writable.
Stuck ==
    /\ relayPc = "wait"
    /\ \A p \in Port : ~Readable(p)
    /\ \A p \in Port : buffer[p] # <<>> => ~wready[p]

\* C16: while no port is readable and no port with bytes waiting is
\* writable, the relay stays in select and does nothing: the call has no
\* timeout to return with; and whenever select returns, it returns at least
\* one port.
C16_NoBusySpin ==
    /\ [][Stuck => relayVars' = relayVars]_vars
    /\ [](Stuck => ~ENABLED RelayWake)
    /\ [][WakeStep => rlist' # <<>> \/ wlist' # <<>>]_vars
C16_Witness ==
    /\ Stuck
    /\ buffer[0] = <<>>
    /\ buffer[1] # <<>>
    /\ tx[1] # <<>>
    /\ ~wready[1]

\* C18: a read appends all it returned (at most 8192 bytes) to the buffer of
\* the other port, however long that buffer is; a select call returns as soon
\* as a port is readable, whatever waits in the buffers; and a buffer gets
\* shorter only by a write to its port, one of the writable ports select
\* returned. So with a port that never takes a byte, every byte the other port
\* delivers ends in its buffer.
C18_NoCap ==
    /\ [][\A s \in Port : ReadStep(s) =>
            /\ clen' <= ChunkSize
            /\ clen' = Min(ChunkSize, Len(rx[s]))
            /\ buffer'[Target(s)] = buffer[Target(s)] \o SubSeq(rx[s], 1, clen')]_vars
    /\ []((Alive /\ relayPc = "wait" /\ \E p \in Port : Readable(p)) => ENABLED RelayWake)
    /\ [][\A p \in Port : (InLoop /\ relayErr' = "none" /\ Len(buffer'[p]) < Len(buffer[p])) =>
            /\ rlist = <<>>
            /\ wlist # <<>>
            /\ Head(wlist) = p
            /\ n' = Len(buffer[p]) - Len(buffer'[p])]_vars
C18_Witness ==
    /\ relayErr = "none"
    /\ Len(buffer[1]) = MaxBytes
    /\ tx[1] = <<>>
    /\ ~wready[1]

\* A pass of the loop of Simulation k that read from the master and raised
\* nothing.
RecvStep(k) == simPc[k] = "read" /\ simPc'[k] = "select"

\* C17: when select returns the master readable, the Simulation takes exactly
\* one byte from it, writes no message and keeps its deadline; after line 125
\* has set the deadline, only the pass that writes a message changes it, to
\* the time of the write plus the delay.
C17_ReadKeepsDeadline ==
    /\ [][\A k \in Port : (simPc[k] = "wait" /\ simPc'[k] = "read") =>
            inbox' = inbox /\ rx' = rx /\ tNext' = tNext /\ lastSent' = lastSent]_vars
    /\ [][\A k \in Port : RecvStep(k) =>
            /\ inbox[k] # <<>>
            /\ inbox'[k] = Tail(inbox[k])
            /\ rx' = rx
            /\ lastSent' = lastSent
            /\ tNext' = tNext]_vars
    /\ [][\A k \in Port : (tNext'[k] # tNext[k] /\ simPc[k] # "init") =>
            /\ SendStep(k)
            /\ rx'[k] = rx[k] \o Msg(k, now)
            /\ tNext'[k] = now + args.delay[k + 1]]_vars
C17_Witness ==
    /\ simPc[0] = "select"
    /\ Len(tx[0]) = 2
    /\ Len(inbox[0]) = 1
    /\ rx[0] = <<>>
    /\ now >= 1
    /\ tNext[0] = args.delay[1]

\* C19: the timeout of every select call of a Simulation, tNext - time.time(),
\* is at least 0, and no Simulation ends with the ValueError select raises
\* for a negative timeout.
C19_TimeoutNeverNegative ==
    /\ \A k \in Port : simPc[k] = "select" => tNext[k] - now >= 0
    /\ \A k \in Port : simErr[k] # "ValueError"

\* C20: no message is written early, whatever the Simulation is sent: a
\* message is written no sooner than its deadline, the first no sooner than
\* the delay after the loop started, and each later one no sooner than the
\* delay after the one before it.
C20_NeverEarly ==
    /\ [][\A k \in Port : SendStep(k) =>
            /\ now >= tNext[k]
            /\ lastSent[k] = -1 => now >= args.delay[k + 1]
            /\ lastSent[k] # -1 => now - lastSent[k] >= args.delay[k + 1]]_vars
    /\ [](\A k \in Port : lastSent[k] # -1 => tNext[k] = lastSent[k] + args.delay[k + 1])
C20_Witness ==
    /\ Len(rx[0]) = 2
    /\ tx[0] # <<>>
    /\ lastSent[0] = 2 * args.delay[1]

====
